---------------------------- MODULE Spec2Model ----------------------------
(***************************************************************************)
(* Model of AieProfileCTWriter (profile/plugin/aie_profile/ve2): the       *)
(* generation of the CT tracing script from the CSV manifest               *)
(* aie_profile_timestamps.csv and the live AIE counter configuration.      *)
(*                                                                         *)
(* Text that the code parses (manifest lines, file names, metric-set       *)
(* names) is a sequence of one-character strings, so that the parsing is   *)
(* computed as the code computes it.  Text that the code emits is a        *)
(* sequence of lines, each line the sequence of the pieces that the code   *)
(* streams into it.                                                        *)
(***************************************************************************)
EXTENDS Integers, Sequences, FiniteSets, TLC

(***************************************************************************)
(* Bounds of the model.                                                    *)
(***************************************************************************)
MaxRows == 2          \* data rows of a manifest drawn from RowPool
MaxCounters == 2      \* live counters drawn from CounterPool
MaxRuns == 2          \* consecutive calls of generate()

IntMax == 2147483647  \* largest value of int, the result type of std::stoi

(***************************************************************************)
(* Characters and small helpers.                                           *)
(***************************************************************************)
Digits == <<"0", "1", "2", "3", "4", "5", "6", "7", "8", "9">>

IsDigit(c) == \E i \in 1..10 : Digits[i] = c

DigitVal(c) == (CHOOSE i \in 1..10 : Digits[i] = c) - 1

IsSpace(c) == c \in {" ", "\t"}

\* The characters of s from position i on.
Drop(s, i) == IF i > Len(s) THEN <<>> ELSE SubSeq(s, i, Len(s))

\* s has the characters of lit at position i.
HasAt(s, i, lit) ==
  /\ i + Len(lit) - 1 <= Len(s)
  /\ \A k \in 1..Len(lit) : s[i + k - 1] = lit[k]

\* std::string::find(lit) != npos
Contains(s, lit) == \E i \in 1..(Len(s) + 1) : HasAt(s, i, lit)

\* The characters of a parsed text as one emitted piece.
RECURSIVE Str(_)
Str(s) == IF s = <<>> THEN "" ELSE Head(s) \o Str(Tail(s))

(***************************************************************************)
(* std::stoi: leading white space, an optional sign, then decimal digits;  *)
(* what follows the digits is ignored.  No digit: std::invalid_argument;   *)
(* a value outside int: std::out_of_range.  Both are reported as ok =      *)
(* FALSE.  (The magnitude is limited to IntMax for both signs.)            *)
(***************************************************************************)
RECURSIVE SkipSpace(_, _)
SkipSpace(s, i) ==
  IF i <= Len(s) /\ IsSpace(s[i]) THEN SkipSpace(s, i + 1) ELSE i

\* Value of the digit run at position i, or -1 once it exceeds IntMax.
RECURSIVE Magnitude(_, _, _)
Magnitude(s, i, acc) ==
  IF i > Len(s) \/ ~IsDigit(s[i]) THEN acc
  ELSE IF acc > (IntMax - DigitVal(s[i])) \div 10 THEN -1
  ELSE Magnitude(s, i + 1, acc * 10 + DigitVal(s[i]))

Stoi(s) ==
  LET i == SkipSpace(s, 1)
      signed == i <= Len(s) /\ s[i] \in {"+", "-"}
      j == IF signed THEN i + 1 ELSE i
      m == Magnitude(s, j, 0)
  IN  IF j > Len(s) \/ ~IsDigit(s[j]) THEN [ok |-> FALSE, val |-> 0]
      ELSE IF m < 0 THEN [ok |-> FALSE, val |-> 0]
      ELSE [ok |-> TRUE, val |-> IF signed /\ s[i] = "-" THEN 0 - m ELSE m]

(***************************************************************************)
(* readASMInfoFromCSV: the field splitter of one manifest line.            *)
(***************************************************************************)
\* A quote toggles inQuote and is dropped; a comma outside quotes ends the
\* field; the last field is added after the loop.
RECURSIVE SplitFields(_, _, _, _, _)
SplitFields(line, i, fields, field, inQuote) ==
  IF i > Len(line) THEN Append(fields, field)
  ELSE IF line[i] = "\"" THEN SplitFields(line, i + 1, fields, field, ~inQuote)
  ELSE IF line[i] = "," /\ ~inQuote
       THEN SplitFields(line, i + 1, Append(fields, field), <<>>, inQuote)
  ELSE SplitFields(line, i + 1, fields, Append(field, line[i]), inQuote)

ParseFields(line) == SplitFields(line, 1, <<>>, <<>>, FALSE)

\* The number of fields a data row must have.
NumFields == 3

(***************************************************************************)
(* The file-name pattern aie_runtime_control(\d+)\.asm, searched anywhere  *)
(* in the name (std::regex_search).                                        *)
(***************************************************************************)
ControlPrefix ==
  <<"a", "i", "e", "_", "r", "u", "n", "t", "i", "m", "e", "_",
    "c", "o", "n", "t", "r", "o", "l">>

AsmSuffix == <<".", "a", "s", "m">>

\* Length of the longest run of digits of s that starts at position i.
RECURSIVE DigitRun(_, _)
DigitRun(s, i) ==
  IF i <= Len(s) /\ IsDigit(s[i]) THEN 1 + DigitRun(s, i + 1) ELSE 0

PatternAt(s, i) ==
  LET d == i + Len(ControlPrefix)
      n == DigitRun(s, d)
  IN  HasAt(s, i, ControlPrefix) /\ n >= 1 /\ HasAt(s, d + n, AsmSuffix)

\* [found, digits]: the leftmost match and its capture group 1.
FilenameMatch(name) ==
  IF \E i \in 1..Len(name) : PatternAt(name, i)
  THEN LET i == CHOOSE k \in 1..Len(name) :
                  PatternAt(name, k) /\ \A l \in 1..(k - 1) : ~PatternAt(name, l)
           d == i + Len(ControlPrefix)
       IN  [found |-> TRUE, digits |-> SubSeq(name, d, d + DigitRun(name, d) - 1)]
  ELSE [found |-> FALSE, digits |-> <<>>]

(***************************************************************************)
(* The line-number list of field 3: tokens separated by commas; an empty   *)
(* token is passed over; a token std::stoi rejects is reported and passed  *)
(* over (the inner try/catch); every other token adds a SaveTimestampInfo. *)
(***************************************************************************)
\* std::getline(ss, tok, ','): the tokens of s between commas.
RECURSIVE SplitTokens(_, _, _, _)
SplitTokens(s, i, toks, tok) ==
  IF i > Len(s) THEN (IF tok = <<>> THEN toks ELSE Append(toks, tok))
  ELSE IF s[i] = "," THEN SplitTokens(s, i + 1, Append(toks, tok), <<>>)
  ELSE SplitTokens(s, i + 1, toks, Append(tok, s[i]))

TokenAccepted(tok) == tok # <<>> /\ Stoi(tok).ok

\* Variant: the token loop ends at the first token std::stoi rejects.
RECURSIVE ParseTimestamps_StopAtBad(_, _, _)
ParseTimestamps_StopAtBad(toks, i, acc) ==
  IF i > Len(toks) THEN acc
  ELSE IF toks[i] = <<>> THEN ParseTimestamps_StopAtBad(toks, i + 1, acc)
  ELSE IF ~Stoi(toks[i]).ok THEN acc
  ELSE ParseTimestamps_StopAtBad(toks, i + 1,
         Append(acc, [lineNumber |-> Stoi(toks[i]).val, optionalIndex |-> -1]))

RECURSIVE ParseTimestamps(_, _, _)
ParseTimestamps(toks, i, acc) ==
  IF i > Len(toks) THEN acc
  ELSE IF TokenAccepted(toks[i])
       THEN ParseTimestamps(toks, i + 1,
              Append(acc, [lineNumber |-> Stoi(toks[i]).val, optionalIndex |-> -1]))
  ELSE ParseTimestamps(toks, i + 1, acc)

Timestamps(field) == ParseTimestamps(SplitTokens(field, 1, <<>>, <<>>), 1, <<>>)

(***************************************************************************)
(* readASMInfoFromCSV: one data row.                                       *)
(***************************************************************************)
\* ASMFileInfo of a row whose file name gave the id asmId.
ASMFileInfo(filename, asmId, timestamps) ==
  [filename |-> filename,
   asmId |-> asmId,
   ucNumber |-> 4 * asmId,
   colStart |-> asmId * 4,
   colEnd |-> asmId * 4 + 3,
   timestamps |-> timestamps,
   counters |-> <<>>]

\* The field count the loader accepts.
FieldCountOk(fields) == Len(fields) = NumFields

\* What the loop body does with one line: "skip" (continue), "throw" (an
\* exception leaves the loop body: std::stoi on the captured digits is
\* outside the inner try) or "record" (asmFiles.push_back(info)).
ParseRow(line) ==
  LET fields == ParseFields(line)
      m == FilenameMatch(fields[2])
      id == Stoi(m.digits)
  IN  IF line = <<>> THEN [kind |-> "skip"]
      ELSE IF ~FieldCountOk(fields) THEN [kind |-> "skip"]
      ELSE IF ~m.found THEN [kind |-> "skip"]
      ELSE IF ~id.ok THEN [kind |-> "throw"]
      ELSE [kind |-> "record",
            info |-> ASMFileInfo(fields[2], id.val, Timestamps(fields[3]))]

\* The while loop over the lines inside the outer try: an exception that
\* leaves the loop body is caught after the loop, so the lines that follow
\* are not read.
RECURSIVE ScanLines(_, _, _)
ScanLines(lines, i, acc) ==
  IF i > Len(lines) THEN acc
  ELSE LET r == ParseRow(lines[i])
       IN  IF r.kind = "throw" THEN acc
           ELSE IF r.kind = "record" THEN ScanLines(lines, i + 1, Append(acc, r.info))
           ELSE ScanLines(lines, i + 1, acc)

\* The comparator of the sort.
AsmLess(a, b) == a.asmId < b.asmId

\* std::sort with AsmLess.  For the short vectors of the model the library
\* sorts by insertion, which keeps records of equal asmId in input order.
RECURSIVE InsertByAsmId(_, _)
InsertByAsmId(sorted, x) ==
  IF sorted = <<>> THEN <<x>>
  ELSE IF AsmLess(x, sorted[Len(sorted)])
       THEN Append(InsertByAsmId(SubSeq(sorted, 1, Len(sorted) - 1), x),
                   sorted[Len(sorted)])
  ELSE Append(sorted, x)

RECURSIVE SortFrom(_, _, _)
SortFrom(s, i, acc) ==
  IF i > Len(s) THEN acc ELSE SortFrom(s, i + 1, InsertByAsmId(acc, s[i]))

\* Variant: the records stay in file order.
SortByAsmId_Unsorted(s) == s

SortByAsmId(s) == SortFrom(s, 1, <<>>)

(***************************************************************************)
(* calculateCounterAddress, getModuleBaseOffset, formatAddress.            *)
(* Addresses are uint64_t in the code; within the bounds of the model      *)
(* every address is below 2^31, so no arithmetic wraps.                    *)
(***************************************************************************)
CORE_MODULE_BASE_OFFSET == 226592      \* 0x00037520
MEMORY_MODULE_BASE_OFFSET == 69664     \* 0x00011020
MEM_TILE_BASE_OFFSET == 593952         \* 0x00091020
SHIM_TILE_BASE_OFFSET == 200736        \* 0x00031020

\* Variant: no branch for the interface tiles.
getModuleBaseOffset_NoShim(module) ==
  IF module = "aie" THEN CORE_MODULE_BASE_OFFSET
  ELSE IF module = "aie_memory" THEN MEMORY_MODULE_BASE_OFFSET
  ELSE IF module = "memory_tile" THEN MEM_TILE_BASE_OFFSET
  ELSE CORE_MODULE_BASE_OFFSET

getModuleBaseOffset(module) ==
  IF module = "aie" THEN CORE_MODULE_BASE_OFFSET
  ELSE IF module = "aie_memory" THEN MEMORY_MODULE_BASE_OFFSET
  ELSE IF module = "memory_tile" THEN MEM_TILE_BASE_OFFSET
  ELSE IF module = "interface_tile" THEN SHIM_TILE_BASE_OFFSET
  ELSE CORE_MODULE_BASE_OFFSET

RECURSIVE Pow2(_)
Pow2(n) == IF n = 0 THEN 1 ELSE 2 * Pow2(n - 1)

\* v << n
ShiftLeft(v, n) == v * Pow2(n)

\* a | b
RECURSIVE BitOr(_, _)
BitOr(a, b) ==
  IF a = 0 THEN b
  ELSE IF b = 0 THEN a
  ELSE 2 * BitOr(a \div 2, b \div 2) + (IF a % 2 = 1 \/ b % 2 = 1 THEN 1 ELSE 0)

\* Bytes between two consecutive counter registers.
CounterStride == 4

\* Variant: the product kept in the 8 bits of counterNumber.
CounterOffset_Byte(counterNumber) == (counterNumber * CounterStride) % 256

\* counterNumber * 4
CounterOffset(counterNumber) == counterNumber * CounterStride

\* The address arithmetic with the shifts as arguments.
CounterAddress(column, row, counterNumber, module, cShift, rShift) ==
  LET tileAddress == BitOr(ShiftLeft(column, cShift), ShiftLeft(row, rShift))
      baseOffset == getModuleBaseOffset(module)
      counterOffset == CounterOffset(counterNumber)
  IN  tileAddress + baseOffset + counterOffset

HexDigits ==
  <<"0", "1", "2", "3", "4", "5", "6", "7", "8", "9", "a", "b", "c", "d", "e", "f">>

\* std::hex: the hexadecimal digits of n, most significant first.
RECURSIVE HexChars(_)
HexChars(n) ==
  IF n < 16 THEN <<HexDigits[n + 1]>>
  ELSE Append(HexChars(n \div 16), HexDigits[(n % 16) + 1])

\* std::setw(w) with std::setfill('0'): pad on the left up to w characters.
RECURSIVE PadLeft(_, _)
PadLeft(cs, w) == IF Len(cs) >= w THEN cs ELSE PadLeft(<<"0">> \o cs, w)

AddressWidth == 10

formatAddress(address) == "0x" \o Str(PadLeft(HexChars(address), AddressWidth))

\* operator<< of a non-negative integer: its decimal digits.
RECURSIVE Dec(_)
Dec(n) ==
  IF n < 0 THEN "-" \o Dec(0 - n)
  ELSE IF n < 10 THEN Digits[n + 1]
  ELSE Dec(n \div 10) \o Digits[(n % 10) + 1]

(***************************************************************************)
(* isThroughputMetric, getPortDirection.                                   *)
(***************************************************************************)
Throughput == <<"t", "h", "r", "o", "u", "g", "h", "p", "u", "t">>
Bandwidth == <<"b", "a", "n", "d", "w", "i", "d", "t", "h">>
DdrBandwidth == <<"d", "d", "r", "_", "b", "a", "n", "d", "w", "i", "d", "t", "h">>
ReadBandwidth == <<"r", "e", "a", "d", "_", "b", "a", "n", "d", "w", "i", "d", "t", "h">>
WriteBandwidth == <<"w", "r", "i", "t", "e", "_", "b", "a", "n", "d", "w", "i", "d", "t", "h">>
InputWord == <<"i", "n", "p", "u", "t">>
S2mmWord == <<"s", "2", "m", "m">>
OutputWord == <<"o", "u", "t", "p", "u", "t">>
Mm2sWord == <<"m", "m", "2", "s">>

isThroughputMetric(metricSet) ==
  Contains(metricSet, Throughput) \/ Contains(metricSet, Bandwidth)

PAYLOAD_IS_MASTER_SHIFT == 8

\* Variant: the lowest payload bit is read.
IsMaster_LowBit(payload) == payload % 2 = 1

\* (payload >> PAYLOAD_IS_MASTER_SHIFT) & 0x1
IsMaster(payload) == (payload \div Pow2(PAYLOAD_IS_MASTER_SHIFT)) % 2 = 1

getPortDirection(metricSet, payload) ==
  IF metricSet = DdrBandwidth \/ metricSet = ReadBandwidth \/ metricSet = WriteBandwidth
  THEN (IF IsMaster(payload) THEN "output" ELSE "input")
  ELSE IF Contains(metricSet, InputWord) \/ Contains(metricSet, S2mmWord) THEN "input"
  ELSE IF Contains(metricSet, OutputWord) \/ Contains(metricSet, Mm2sWord) THEN "output"
  ELSE ""

\* The port direction getConfiguredCounters stores.
PortDirectionOf(metricSet, payload) ==
  IF isThroughputMetric(metricSet) THEN getPortDirection(metricSet, payload) ELSE ""

(***************************************************************************)
(* getConfiguredCounters: the metric-set lookup.  configMetrics is the     *)
(* sequence of module configurations, each the sequence of its (tile,      *)
(* metric set) entries in iteration order.                                 *)
(***************************************************************************)
\* The inner loop: the name of the first entry for the tile, else current.
RECURSIVE FirstInModule(_, _, _, _, _)
FirstInModule(entries, k, col, row, current) ==
  IF k > Len(entries) THEN current
  ELSE IF entries[k].col = col /\ entries[k].row = row THEN entries[k].metricSet
  ELSE FirstInModule(entries, k + 1, col, row, current)

\* The outer loop: it stops once the metric set is not empty.
RECURSIVE LookupFrom(_, _, _, _, _)
LookupFrom(configMetrics, m, col, row, current) ==
  IF m > Len(configMetrics) THEN current
  ELSE LET found == FirstInModule(configMetrics[m], 1, col, row, current)
       IN  IF found # <<>> THEN found
           ELSE LookupFrom(configMetrics, m + 1, col, row, found)

LookupMetricSet(config, col, row) ==
  IF config.present THEN LookupFrom(config.configMetrics, 1, col, row, <<>>) ELSE <<>>

(***************************************************************************)
(* filterCountersByColumn.                                                 *)
(***************************************************************************)
\* Variant: the end column is excluded.
InColumnRange_ExclusiveEnd(counter, colStart, colEnd) ==
  counter.column >= colStart /\ counter.column < colEnd

InColumnRange(counter, colStart, colEnd) ==
  counter.column >= colStart /\ counter.column <= colEnd

RECURSIVE FilterFrom(_, _, _, _, _)
FilterFrom(allCtrs, i, colStart, colEnd, filtered) ==
  IF i > Len(allCtrs) THEN filtered
  ELSE IF InColumnRange(allCtrs[i], colStart, colEnd)
       THEN FilterFrom(allCtrs, i + 1, colStart, colEnd, Append(filtered, allCtrs[i]))
  ELSE FilterFrom(allCtrs, i + 1, colStart, colEnd, filtered)

filterCountersByColumn(allCtrs, colStart, colEnd) ==
  FilterFrom(allCtrs, 1, colStart, colEnd, <<>>)

(***************************************************************************)
(* writeCTFile: the text of aie_profile.ct.  A line is the sequence of the *)
(* pieces streamed into it up to its "\n"; an empty line is <<"">>.        *)
(***************************************************************************)
Preamble ==
  << <<"# Auto-generated CT file for AIE Profile counters">>,
     <<"# Generated by XRT AIE Profile Plugin">>,
     <<"">>,
     <<"begin">>,
     <<"{">>,
     <<"    ts_start = timestamp32()">>,
     <<"    print(\"\\nAIE Profile tracing started\\n\")">>,
     <<"@blockopen">>,
     <<"import json">>,
     <<"import os">>,
     <<"">>,
     <<"# Initialize data collection">>,
     <<"profile_data = {">>,
     <<"    \"start_timestamp\": ts_start,">>,
     <<"    \"counter_metadata\": [">> >>

\* The metadata entry of allCounters[i] (i counts from 1, n = size()).
MetadataLine(counter, i, n) ==
  <<"        {\"column\": ", Dec(counter.column),
    ", \"row\": ", Dec(counter.row),
    ", \"counter\": ", Dec(counter.counterNumber),
    ", \"module\": \"", counter.module,
    "\", \"address\": \"", formatAddress(counter.address), "\"">>
  \o (IF counter.metricSet # <<>>
      THEN <<", \"metric_set\": \"", Str(counter.metricSet), "\"">> ELSE <<>>)
  \o (IF counter.portDirection # ""
      THEN <<", \"port_direction\": \"", counter.portDirection, "\"">> ELSE <<>>)
  \o <<"}">>
  \o (IF i < n THEN <<",">> ELSE <<>>)

MetadataLines(allCtrs) ==
  [i \in 1..Len(allCtrs) |-> MetadataLine(allCtrs[i], i, Len(allCtrs))]

MetadataClose ==
  << <<"    ],">>,
     <<"    \"probes\": []">>,
     <<"}">>,
     <<"@blockclose">>,
     <<"}">>,
     <<"">> >>

\* fs::path(filename).filename(): what follows the last '/'.
RECURSIVE Basename(_)
Basename(name) ==
  IF \E i \in 1..Len(name) : name[i] = "/"
  THEN Basename(Drop(name, 1 + CHOOSE i \in 1..Len(name) : name[i] = "/"))
  ELSE name

\* lineList: "line" and the line numbers joined by commas.
RECURSIVE LineList(_, _)
LineList(timestamps, i) ==
  IF i > Len(timestamps) THEN ""
  ELSE (IF i > 1 THEN "," ELSE "") \o Dec(timestamps[i].lineNumber)
       \o LineList(timestamps, i + 1)

JprobeLine(asmFile) ==
  <<"jprobe:", Str(Basename(asmFile.filename)),
    ":uc", Dec(asmFile.ucNumber),
    ":", "line" \o LineList(asmFile.timestamps, 1)>>

\* The register read of counters[i]; the local names count from 0.
ReadLine(counters, i) ==
  <<"    ctr_", Dec(i - 1), " = read_reg(", formatAddress(counters[i].address), ")">>

ReadLines(counters) == [i \in 1..Len(counters) |-> ReadLine(counters, i)]

\* tileCounters is a std::map keyed by (column, row): its iteration order is
\* the order of the keys, its values the indices in push_back order.
TileOf(counter) == <<counter.column, counter.row>>

TileLess(a, b) == a[1] < b[1] \/ (a[1] = b[1] /\ a[2] < b[2])

RECURSIVE TilesInMapOrder(_)
TilesInMapOrder(tiles) ==
  IF tiles = {} THEN <<>>
  ELSE LET first == CHOOSE t \in tiles : \A u \in tiles \ {t} : TileLess(t, u)
       IN  <<first>> \o TilesInMapOrder(tiles \ {first})

\* Variant: the tiles in the order of their first occurrence.
TileKeys_EncounterOrder(counters) ==
  LET firsts == {i \in 1..Len(counters) :
                   \A j \in 1..(i - 1) : TileOf(counters[j]) # TileOf(counters[i])}
      nth(g) == CHOOSE i \in firsts : Cardinality({x \in firsts : x <= i}) = g
  IN  [g \in 1..Cardinality(firsts) |-> TileOf(counters[nth(g)])]

TileKeys(counters) == TilesInMapOrder({TileOf(counters[i]) : i \in 1..Len(counters)})

\* The pieces "ctr_<i>" of the counters on tile, from counters[i] on.
RECURSIVE TileCounterNames(_, _, _, _)
TileCounterNames(counters, tile, i, any) ==
  IF i > Len(counters) THEN <<>>
  ELSE IF TileOf(counters[i]) = tile
       THEN (IF any THEN <<", ">> ELSE <<>>) \o <<"ctr_", Dec(i - 1)>>
            \o TileCounterNames(counters, tile, i + 1, TRUE)
  ELSE TileCounterNames(counters, tile, i + 1, any)

TileLine(counters, keys, k) ==
  <<"        {\"col\": ", Dec(keys[k][1]),
    ", \"row\": ", Dec(keys[k][2]), ", \"counters\": [">>
  \o TileCounterNames(counters, keys[k], 1, FALSE)
  \o <<"]}">>
  \o (IF k < Len(keys) THEN <<",">> ELSE <<>>)

TileLines(counters) ==
  LET keys == TileKeys(counters)
  IN  [k \in 1..Len(keys) |-> TileLine(counters, keys, k)]

\* Variant: only the timestamps are looked at.
BlockSkipped_TimestampsOnly(asmFile) == asmFile.timestamps = <<>>

\* The jprobe loop passes over a record without timestamps or counters.
BlockSkipped(asmFile) == asmFile.timestamps = <<>> \/ asmFile.counters = <<>>

JprobeBlock(asmFile) ==
  << <<"# Probes for ", Str(Basename(asmFile.filename)),
       " (columns ", Dec(asmFile.colStart), "-", Dec(asmFile.colEnd), ")">>,
     JprobeLine(asmFile),
     <<"{">>,
     <<"    ts = timestamp32()">> >>
  \o ReadLines(asmFile.counters)
  \o << <<"    print(f\"Probe fired: ts={ts}\")">>,
        <<"@blockopen">>,
        <<"profile_data[\"probes\"].append({">>,
        <<"    \"asm_file\": \"", Str(Basename(asmFile.filename)), "\",">>,
        <<"    \"timestamp\": ts,">>,
        <<"    \"tiles\": [">> >>
  \o TileLines(asmFile.counters)
  \o << <<"    ]">>,
        <<"})">>,
        <<"@blockclose">>,
        <<"}">>,
        <<"">> >>

RECURSIVE JprobeBlocks(_, _)
JprobeBlocks(files, i) ==
  IF i > Len(files) THEN <<>>
  ELSE (IF BlockSkipped(files[i]) THEN <<>> ELSE JprobeBlock(files[i]))
       \o JprobeBlocks(files, i + 1)

Epilogue ==
  << <<"end">>,
     <<"{">>,
     <<"    ts_end = timestamp32()">>,
     <<"    print(\"\\nAIE Profile tracing ended\\n\")">>,
     <<"@blockopen">>,
     <<"profile_data[\"end_timestamp\"] = ts_end">>,
     <<"profile_data[\"total_time\"] = ts_end - profile_data[\"start_timestamp\"]">>,
     <<"">>,
     <<"output_path = os.path.join(os.getcwd(), \"aie_profile_counters.json\")">>,
     <<"with open(output_path, \"w\") as f:">>,
     <<"    json.dump(profile_data, f, indent=2)">>,
     <<"print(f\"Profile data written to {output_path}\")">>,
     <<"@blockclose">>,
     <<"}">> >>

\* The whole text written by a call that could open the file.
CTFileText(files, allCtrs) ==
  Preamble \o MetadataLines(allCtrs) \o MetadataClose \o JprobeBlocks(files, 1) \o Epilogue

(***************************************************************************)
(* Inputs of the model: manifest lines.  The program ids of the rows are   *)
(* either small or beyond int, so 4 * asmId stays within int wherever it   *)
(* is computed, and no line-number token is negative, so the conversion of *)
(* std::stoi's int to the uint32_t lineNumber keeps the value.             *)
(***************************************************************************)
\* filepath,filename,line_numbers: the header line
HeaderLine ==
  <<"f", "i", "l", "e", "p", "a", "t", "h", ",", "f", "i", "l", "e", "n",
    "a", "m", "e", ",", "l", "i", "n", "e", "_", "n", "u", "m", "b", "e",
    "r", "s">>

\* w,aie_runtime_control0.asm,"6,8,293": id 0, probe points 6, 8, 293
RowId0 ==
  <<"w", ",", "a", "i", "e", "_", "r", "u", "n", "t", "i", "m", "e", "_",
    "c", "o", "n", "t", "r", "o", "l", "0", ".", "a", "s", "m", ",", "\"",
    "6", ",", "8", ",", "2", "9", "3", "\"">>

\* w,run/aie_runtime_control1.asm,"12": id 1 with a directory in the file name
RowId1 ==
  <<"w", ",", "r", "u", "n", "/", "a", "i", "e", "_", "r", "u", "n", "t",
    "i", "m", "e", "_", "c", "o", "n", "t", "r", "o", "l", "1", ".", "a",
    "s", "m", ",", "\"", "1", "2", "\"">>

\* w,aie_runtime_control1.asm,6,8: unquoted line numbers: four fields
RowFourFields ==
  <<"w", ",", "a", "i", "e", "_", "r", "u", "n", "t", "i", "m", "e", "_",
    "c", "o", "n", "t", "r", "o", "l", "1", ".", "a", "s", "m", ",", "6",
    ",", "8">>

\* w,main.asm,"5": a file name the pattern does not match
RowBadName ==
  <<"w", ",", "m", "a", "i", "n", ".", "a", "s", "m", ",", "\"", "5", "\"">>

\* w,aie_runtime_control99999999999.asm,"7": digits beyond int
RowHugeId ==
  <<"w", ",", "a", "i", "e", "_", "r", "u", "n", "t", "i", "m", "e", "_",
    "c", "o", "n", "t", "r", "o", "l", "9", "9", "9", "9", "9", "9", "9",
    "9", "9", "9", "9", ".", "a", "s", "m", ",", "\"", "7", "\"">>

\* w,aie_runtime_control1.asm,"x, 7,,9z,99999999999": tokens std::stoi rejects among others
RowBadToken ==
  <<"w", ",", "a", "i", "e", "_", "r", "u", "n", "t", "i", "m", "e", "_",
    "c", "o", "n", "t", "r", "o", "l", "1", ".", "a", "s", "m", ",", "\"",
    "x", ",", " ", "7", ",", ",", "9", "z", ",", "9", "9", "9", "9", "9",
    "9", "9", "9", "9", "9", "9", "\"">>

\* w,aie_runtime_control0.asm,"x": id 0, its only token rejected
RowOnlyBadToken ==
  <<"w", ",", "a", "i", "e", "_", "r", "u", "n", "t", "i", "m", "e", "_", "c",
    "o", "n", "t", "r", "o", "l", "0", ".", "a", "s", "m", ",", "\"", "x", "\"">>

EmptyLine == <<>>

RowPool ==
  {RowId0, RowId1, RowFourFields, RowBadName, RowHugeId,
   RowBadToken, RowOnlyBadToken, EmptyLine}

\* All sequences over pool of length at most n.
SeqsUpTo(pool, n) == UNION {[1..k -> pool] : k \in 0..n}

\* aie_profile_timestamps.csv: absent, without any line, or a header line
\* followed by data rows.
ManifestPool ==
  {[exists |-> FALSE, lines |-> <<>>], [exists |-> TRUE, lines |-> <<>>]}
  \cup {[exists |-> TRUE, lines |-> <<HeaderLine>> \o rows] :
          rows \in SeqsUpTo(RowPool, MaxRows)}

ManifestId0Id1 == [exists |-> TRUE, lines |-> <<HeaderLine, RowId0, RowId1>>]

(***************************************************************************)
(* Inputs of the model: metric-set names and profile configurations.       *)
(***************************************************************************)
Name_read_bandwidth ==
  <<"r", "e", "a", "d", "_", "b", "a", "n", "d", "w", "i", "d", "t", "h">>

Name_ddr_bandwidth ==
  <<"d", "d", "r", "_", "b", "a", "n", "d", "w", "i", "d", "t", "h">>

Name_write_bandwidth ==
  <<"w", "r", "i", "t", "e", "_", "b", "a", "n", "d", "w", "i", "d", "t",
    "h">>

Name_mm2s_throughput ==
  <<"m", "m", "2", "s", "_", "t", "h", "r", "o", "u", "g", "h", "p", "u",
    "t">>

Name_s2mm_throughput ==
  <<"s", "2", "m", "m", "_", "t", "h", "r", "o", "u", "g", "h", "p", "u",
    "t">>

Name_input_throughputs ==
  <<"i", "n", "p", "u", "t", "_", "t", "h", "r", "o", "u", "g", "h", "p",
    "u", "t", "s">>

Name_output_throughputs ==
  <<"o", "u", "t", "p", "u", "t", "_", "t", "h", "r", "o", "u", "g", "h",
    "p", "u", "t", "s">>

Name_input_output_throughputs ==
  <<"i", "n", "p", "u", "t", "_", "o", "u", "t", "p", "u", "t", "_", "t",
    "h", "r", "o", "u", "g", "h", "p", "u", "t", "s">>

Name_memory_bandwidth ==
  <<"m", "e", "m", "o", "r", "y", "_", "b", "a", "n", "d", "w", "i", "d",
    "t", "h">>

Name_heat_map ==
  <<"h", "e", "a", "t", "_", "m", "a", "p">>

Name_input_ports ==
  <<"i", "n", "p", "u", "t", "_", "p", "o", "r", "t", "s">>

NamePool ==
  {Name_read_bandwidth,
   Name_ddr_bandwidth,
   Name_write_bandwidth,
   Name_mm2s_throughput,
   Name_s2mm_throughput,
   Name_input_throughputs,
   Name_output_throughputs,
   Name_input_output_throughputs,
   Name_memory_bandwidth,
   Name_heat_map,
   Name_input_ports}

Entry(col, row, metricSet) == [col |-> col, row |-> row, metricSet |-> metricSet]

\* One metric set configured on tile (0,2) of one module and tile (1,0) of
\* another.
ConfigOf(name) ==
  [present |-> TRUE,
   configMetrics |-> << <<Entry(0, 2, name)>>, <<Entry(1, 0, name)>> >>]

\* Tile (0,2) configured in two modules.
ConfigTwoModules ==
  [present |-> TRUE,
   configMetrics |-> << <<Entry(1, 0, Name_heat_map), Entry(0, 2, Name_s2mm_throughput)>>,
                        <<Entry(0, 2, Name_mm2s_throughput)>> >>]

\* Tile (0,2) configured with an empty name in the first module.
ConfigEmptyName ==
  [present |-> TRUE,
   configMetrics |-> << <<Entry(0, 2, <<>>)>>, <<Entry(0, 2, Name_read_bandwidth)>> >>]

\* createAIEProfileConfig() returned no configuration.
ConfigAbsent == [present |-> FALSE, configMetrics |-> <<>>]

ConfigPool ==
  {ConfigOf(name) : name \in NamePool}
  \cup {ConfigTwoModules, ConfigEmptyName, ConfigAbsent}

(***************************************************************************)
(* Inputs of the model: live counters and shifts.                          *)
(***************************************************************************)
AIECounter(column, row, counterNumber, module, payload) ==
  [null |-> FALSE, column |-> column, row |-> row,
   counterNumber |-> counterNumber, module |-> module, payload |-> payload]

\* getAIECounter() returned nullptr.
NullCounter ==
  [null |-> TRUE, column |-> 0, row |-> 0, counterNumber |-> 0, module |-> "",
   payload |-> 0]

CounterPool ==
  {NullCounter,
   AIECounter(0, 2, 0, "aie", 0),
   AIECounter(0, 2, 1, "aie", 256),
   AIECounter(1, 0, 0, "interface_tile", 255),
   AIECounter(1, 0, 1, "interface_tile", 769),
   AIECounter(3, 1, 0, "memory_tile", 0),
   AIECounter(4, 2, 0, "aie_memory", 256),
   AIECounter(8, 0, 2, "dma", 0)}

\* (columnShift, rowShift) of the AIE configuration metadata.
ShiftPool == {<<25, 20>>, <<23, 20>>, <<20, 24>>, <<20, 20>>, <<2, 0>>}

AddressColumns == {0, 1, 7}
AddressRows == {0, 1, 5}
AddressCounterNumbers == {0, 1, 2, 63, 64, 254, 255}
AddressModules == {"aie", "aie_memory", "memory_tile", "interface_tile", "dma"}

\* Devices the manifests are combined with.
DeviceNone == <<>>

DeviceTwoInColumn0 ==
  <<AIECounter(0, 2, 0, "aie", 0), AIECounter(0, 2, 1, "aie", 0)>>

DeviceSpread ==
  <<AIECounter(5, 2, 0, "aie", 0), AIECounter(1, 3, 0, "aie_memory", 0),
    AIECounter(0, 2, 0, "aie", 256), AIECounter(1, 3, 1, "aie_memory", 0)>>

DevicePool == {DeviceNone, DeviceTwoInColumn0, DeviceSpread}

\* aie_profile.ct before the first call: absent, or left by an earlier
\* session.
NoOutput == [exists |-> FALSE, text |-> <<>>]
StaleOutput == [exists |-> TRUE, text |-> << <<"# stale">> >>]

(***************************************************************************)
(* State.                                                                  *)
(***************************************************************************)
VARIABLES
  manifest,       \* aie_profile_timestamps.csv in the current directory
  liveCounters,   \* the AIE counters of the device in the static database
  profileConfig,  \* what metadata->createAIEProfileConfig() returns
  columnShift,    \* member set by the constructor
  rowShift,       \* member set by the constructor
  writable,       \* whether aie_profile.ct can be opened for writing
  outFile,        \* aie_profile.ct in the current directory
  pc,             \* position of generate(): idle, resolve, filter, emit
  asmFiles,       \* local of generate()
  allCounters,    \* local of generate()
  filterIdx,      \* position of the filter loop in asmFiles
  hasTimestamps,  \* local of generate()
  steps,          \* the steps the current call has executed so far
  calls           \* result and output file after each finished call

vars ==
  <<manifest, liveCounters, profileConfig, columnShift, rowShift, writable,
    outFile, pc, asmFiles, allCounters, filterIdx, hasTimestamps, steps, calls>>

inputs == <<manifest, liveCounters, profileConfig, columnShift, rowShift, writable>>

(***************************************************************************)
(* readASMInfoFromCSV and getConfiguredCounters.                           *)
(***************************************************************************)
\* Variant: the vector outlives the call (a member instead of a local).
FreshAsmFiles_Kept == asmFiles

\* std::vector<ASMFileInfo> asmFiles; the loader starts from an empty vector.
FreshAsmFiles == <<>>

readASMInfoFromCSV(file) ==
  IF ~file.exists THEN FreshAsmFiles
  ELSE SortByAsmId(ScanLines(file.lines, 2, FreshAsmFiles))

calculateCounterAddress(column, row, counterNumber, module) ==
  CounterAddress(column, row, counterNumber, module, columnShift, rowShift)

CTCounterInfo(aieCounter) ==
  LET metricSet == LookupMetricSet(profileConfig, aieCounter.column, aieCounter.row)
  IN  [column |-> aieCounter.column,
       row |-> aieCounter.row,
       counterNumber |-> aieCounter.counterNumber,
       module |-> aieCounter.module,
       address |-> calculateCounterAddress(aieCounter.column, aieCounter.row,
                                           aieCounter.counterNumber, aieCounter.module),
       metricSet |-> metricSet,
       portDirection |-> PortDirectionOf(metricSet, aieCounter.payload)]

RECURSIVE ResolveFrom(_, _, _)
ResolveFrom(live, i, counters) ==
  IF i > Len(live) THEN counters
  ELSE IF live[i].null THEN ResolveFrom(live, i + 1, counters)
  ELSE ResolveFrom(live, i + 1, Append(counters, CTCounterInfo(live[i])))

getConfiguredCounters == ResolveFrom(liveCounters, 1, <<>>)

(***************************************************************************)
(* generate().                                                             *)
(***************************************************************************)
\* The early returns of generate().
AfterLoad(files) == IF files = <<>> THEN "return" ELSE "resolve"

\* Variant: no early return when no counter is configured.
AfterResolve_NoCheck(counters) == "filter"

AfterResolve(counters) == IF counters = <<>> THEN "return" ELSE "filter"

\* Variant: no early return when no record has a probe point.
AfterFilter_NoCheck(hasTs) == "emit"

AfterFilter(hasTs) == IF ~hasTs THEN "return" ELSE "emit"

\* The filter loop has visited every record.
FilterLoopDone(idx, files) == idx > Len(files)

\* generate() returns r, the output file being out.
Return(r, out) ==
  /\ pc' = "idle"
  /\ calls' = Append(calls, [result |-> r, out |-> out])

\* Step 1: a call of generate() starts and reads the manifest.
Load ==
  /\ pc = "idle"
  /\ Len(calls) < MaxRuns
  /\ LET files == readASMInfoFromCSV(manifest)
     IN  /\ asmFiles' = files
         /\ steps' = <<"Load">>
         /\ allCounters' = <<>>
         /\ filterIdx' = 1
         /\ hasTimestamps' = FALSE
         /\ IF AfterLoad(files) = "return"
            THEN Return(FALSE, outFile)
            ELSE pc' = "resolve" /\ UNCHANGED calls
  /\ UNCHANGED <<inputs, outFile>>

\* Step 2: the configured counters.
Resolve ==
  /\ pc = "resolve"
  /\ LET counters == getConfiguredCounters
     IN  /\ allCounters' = counters
         /\ steps' = Append(steps, "Resolve")
         /\ IF AfterResolve(counters) = "return"
            THEN Return(FALSE, outFile)
            ELSE pc' = "filter" /\ UNCHANGED calls
  /\ UNCHANGED <<inputs, outFile, asmFiles, filterIdx, hasTimestamps>>

\* Step 3: one iteration of the filter loop; after the last record the
\* check of hasTimestamps.
Filter ==
  /\ pc = "filter"
  /\ ~FilterLoopDone(filterIdx, asmFiles)
  /\ LET asmFile == asmFiles[filterIdx]
         hasTs == hasTimestamps \/ asmFile.timestamps # <<>>
         filtered == filterCountersByColumn(allCounters, asmFile.colStart, asmFile.colEnd)
     IN  /\ hasTimestamps' = hasTs
         /\ asmFiles' = [asmFiles EXCEPT ![filterIdx].counters = filtered]
         /\ filterIdx' = filterIdx + 1
         /\ steps' = Append(steps, "Filter")
         /\ IF ~FilterLoopDone(filterIdx + 1, asmFiles)
            THEN pc' = "filter" /\ UNCHANGED calls
            ELSE IF AfterFilter(hasTs) = "return"
            THEN Return(FALSE, outFile)
            ELSE pc' = "emit" /\ UNCHANGED calls
  /\ UNCHANGED <<inputs, outFile, allCounters>>

\* Step 4: writeCTFile.
Emit ==
  /\ pc = "emit"
  /\ steps' = Append(steps, "Emit")
  /\ IF ~writable
     THEN /\ outFile' = outFile
          /\ Return(FALSE, outFile)
     ELSE /\ outFile' = [exists |-> TRUE, text |-> CTFileText(asmFiles, allCounters)]
          /\ Return(TRUE, outFile')
  /\ UNCHANGED <<inputs, asmFiles, allCounters, filterIdx, hasTimestamps>>

(***************************************************************************)
(* Specification.                                                          *)
(***************************************************************************)
Idle ==
  /\ pc = "idle"
  /\ asmFiles = <<>>
  /\ allCounters = <<>>
  /\ filterIdx = 1
  /\ hasTimestamps = FALSE
  /\ steps = <<>>
  /\ calls = <<>>

\* Manifests of every shape with a few devices.
InitManifests ==
  /\ manifest \in ManifestPool
  /\ liveCounters \in DevicePool
  /\ profileConfig = ConfigOf(Name_s2mm_throughput)
  /\ columnShift = 25 /\ rowShift = 20
  /\ writable = TRUE
  /\ outFile \in {NoOutput, StaleOutput}

\* An output file that cannot be opened for writing.
InitUnwritable ==
  /\ manifest \in {ManifestId0Id1, [exists |-> FALSE, lines |-> <<>>]}
  /\ liveCounters \in DevicePool
  /\ profileConfig = ConfigOf(Name_s2mm_throughput)
  /\ columnShift = 25 /\ rowShift = 20
  /\ writable = FALSE
  /\ outFile \in {NoOutput, StaleOutput}

\* Counter tables of every shape with one manifest.
InitDevices ==
  /\ manifest = ManifestId0Id1
  /\ liveCounters \in SeqsUpTo(CounterPool, MaxCounters)
  /\ profileConfig \in {ConfigOf(Name_read_bandwidth), ConfigTwoModules}
  /\ columnShift = 25 /\ rowShift = 20
  /\ writable = TRUE
  /\ outFile = NoOutput

\* Every profile configuration with every single counter.
InitConfigs ==
  /\ manifest = ManifestId0Id1
  /\ liveCounters \in {<<c>> : c \in CounterPool}
  /\ profileConfig \in ConfigPool
  /\ columnShift = 25 /\ rowShift = 20
  /\ writable = TRUE
  /\ outFile = NoOutput

\* One counter of every coordinate, counter number, module and shift pair.
InitAddresses ==
  /\ manifest = ManifestId0Id1
  /\ \E column \in AddressColumns, row \in AddressRows,
        counterNumber \in AddressCounterNumbers, module \in AddressModules :
       liveCounters = <<AIECounter(column, row, counterNumber, module, 0)>>
  /\ profileConfig = ConfigAbsent
  /\ \E sh \in ShiftPool : columnShift = sh[1] /\ rowShift = sh[2]
  /\ writable = TRUE
  /\ outFile = NoOutput

Init ==
  Idle /\ (InitManifests \/ InitUnwritable \/ InitDevices \/ InitConfigs \/ InitAddresses)

Next == Load \/ Resolve \/ Filter \/ Emit

Spec == Init /\ [][Next]_vars

(***************************************************************************)
(* Observations used by the properties.                                    *)
(***************************************************************************)
\* Number of entries of the step log equal to name.
StepCount(name) == Cardinality({j \in 1..Len(steps) : steps[j] = name})

\* The current or the last call has finished its Load / Resolve step.
HasLoaded == steps # <<>>
JustLoaded == steps = <<"Load">>
HasResolved == StepCount("Resolve") = 1

\* The last call has finished and wrote the output file.
Succeeded == pc = "idle" /\ calls # <<>> /\ calls[Len(calls)].result

\* The loaded records as the loader returned them (before the filter step).
LoadedRecords == [k \in 1..Len(asmFiles) |-> [asmFiles[k] EXCEPT !.counters = <<>>]]

\* The data-row positions of the manifest (line 1 is the header).
DataRows == 2..Len(manifest.lines)

\* The manifest without its line i.
WithoutLine(i) ==
  [manifest EXCEPT !.lines = SubSeq(manifest.lines, 1, i - 1)
                             \o SubSeq(manifest.lines, i + 1, Len(manifest.lines))]

\* Lines of an emitted text by their first piece.
JprobeLinesOf(text) == SelectSeq(text, LAMBDA l : l[1] = "jprobe:")
ReadLinesOf(text) == SelectSeq(text, LAMBDA l : l[1] = "    ctr_")
MetadataLinesOf(text) == SelectSeq(text, LAMBDA l : l[1] = "        {\"column\": ")

\* Positions of the jprobe declarations in an emitted text, in order.
JprobePositions(text) == {j \in 1..Len(text) : text[j][1] = "jprobe:"}

NthOf(set, n) == CHOOSE j \in set : Cardinality({x \in set : x <= j}) = n

\* The lines of the k-th instrumentation block: from its jprobe declaration
\* up to the next declaration (or the end of the text).
BlockRegion(text, k) ==
  LET pos == JprobePositions(text)
      from == NthOf(pos, k)
      to == IF k < Cardinality(pos) THEN NthOf(pos, k + 1) - 1 ELSE Len(text)
  IN  SubSeq(text, from, to)

(***************************************************************************)
(* C1.  In every call of generate() the steps run in the order Load,       *)
(* Resolve, Filter (once per record), Emit: the step log is always a       *)
(* prefix of that sequence, a later step starts only when the earlier one  *)
(* is complete, and after an early stop (no record loaded, no counter, no  *)
(* probe point) no later step has run.                                     *)
(***************************************************************************)
FullStepOrder ==
  <<"Load", "Resolve">> \o [k \in 1..Len(asmFiles) |-> "Filter"] \o <<"Emit">>

C1_StepOrder ==
  /\ Len(steps) <= Len(FullStepOrder)
  /\ steps = SubSeq(FullStepOrder, 1, Len(steps))
  /\ StepCount("Resolve") = 1 => asmFiles # <<>>
  /\ StepCount("Filter") >= 1 => allCounters # <<>>
  /\ StepCount("Filter") = filterIdx - 1
  /\ StepCount("Emit") = 1 =>
       /\ StepCount("Filter") = Len(asmFiles)
       /\ \E k \in 1..Len(asmFiles) : asmFiles[k].timestamps # <<>>
  /\ (pc = "idle" /\ calls # <<>> /\ asmFiles = <<>>) => steps = <<"Load">>
  /\ (pc = "idle" /\ asmFiles # <<>> /\ allCounters = <<>>) => steps = <<"Load", "Resolve">>
  /\ pc = "resolve" => steps = <<"Load">>
  /\ pc = "emit" => StepCount("Filter") = Len(asmFiles) /\ StepCount("Emit") = 0

\* A call over two records that ran all four steps.
C1_Witness ==
  /\ pc = "idle"
  /\ steps = <<"Load", "Resolve", "Filter", "Filter", "Emit">>

(***************************************************************************)
(* C2.  When the manifest is absent or yields no record, or no counter is  *)
(* configured, or no record has a probe point, no step of generate()       *)
(* changes aie_profile.ct and the call returns failure.                    *)
(***************************************************************************)
InputAbsent ==
  LET records == readASMInfoFromCSV(manifest)
  IN  \/ ~manifest.exists
      \/ records = <<>>
      \/ \A i \in 1..Len(liveCounters) : liveCounters[i].null
      \/ \A k \in 1..Len(records) : records[k].timestamps = <<>>

C2_InputAbsentKeepsOutput ==
  [][InputAbsent =>
       /\ outFile' = outFile
       /\ (pc' = "idle" =>
             /\ calls'[Len(calls')].result = FALSE
             /\ calls'[Len(calls')].out = outFile)]_vars

\* A call that stopped for want of probe points and left an older output
\* file as it was.
C2_Witness ==
  /\ pc = "idle" /\ calls # <<>>
  /\ asmFiles # <<>> /\ allCounters # <<>>
  /\ \A k \in 1..Len(asmFiles) : asmFiles[k].timestamps = <<>>
  /\ outFile = StaleOutput
  /\ calls[Len(calls)].result = FALSE

(***************************************************************************)
(* C3.  One malformed data row never costs another row its record: for     *)
(* every malformed data row r of the manifest, every other well-formed     *)
(* row, before or after r, has its record in the loader's result.          *)
(***************************************************************************)
WellFormedRow(line) == ParseRow(line).kind = "record"

MalformedRow(line) == line # <<>> /\ ParseRow(line).kind # "record"

C3_OtherRowsSurvive ==
  HasLoaded =>
    \A r \in DataRows : MalformedRow(manifest.lines[r]) =>
      \A i \in DataRows \ {r} : WellFormedRow(manifest.lines[i]) =>
        \E k \in 1..Len(asmFiles) : LoadedRecords[k] = ParseRow(manifest.lines[i]).info

(***************************************************************************)
(* C4.  As claimed: a row with the wrong field count, a file name the      *)
(* pattern does not match, or a line-number token that cannot be parsed    *)
(* contributes no record (the loader's result is what it is without the    *)
(* row).                                                                   *)
(* As amended: that holds of the first two kinds of row; a row with a      *)
(* token that cannot be parsed is loaded as the same row listing only its  *)
(* parsable tokens; a row whose captured digits std::stoi rejects gives no *)
(* record.                                                                 *)
(***************************************************************************)
WrongFieldCount(line) == line # <<>> /\ Len(ParseFields(line)) # 3

NameUnmatched(line) ==
  Len(ParseFields(line)) = 3 /\ ~FilenameMatch(ParseFields(line)[2]).found

RowTokens(line) == SplitTokens(ParseFields(line)[3], 1, <<>>, <<>>)

HasRejectedToken(line) ==
  /\ Len(ParseFields(line)) = 3
  /\ \E t \in 1..Len(RowTokens(line)) :
       RowTokens(line)[t] # <<>> /\ ~Stoi(RowTokens(line)[t]).ok

IdRejected(line) ==
  /\ Len(ParseFields(line)) = 3
  /\ FilenameMatch(ParseFields(line)[2]).found
  /\ ~Stoi(FilenameMatch(ParseFields(line)[2]).digits).ok

ContributesNothing(i) == readASMInfoFromCSV(WithoutLine(i)) = LoadedRecords

RECURSIVE JoinTokens(_, _)
JoinTokens(toks, i) ==
  IF i > Len(toks) THEN <<>>
  ELSE (IF i > 1 THEN <<",">> ELSE <<>>) \o toks[i] \o JoinTokens(toks, i + 1)

Quoted(field) == <<"\"">> \o field \o <<"\"">>

\* The row with the same first two fields and only the tokens std::stoi accepts.
CleanedRow(line) ==
  LET kept == SelectSeq(RowTokens(line), LAMBDA tok : tok # <<>> /\ Stoi(tok).ok)
  IN  Quoted(ParseFields(line)[1]) \o <<",">> \o Quoted(ParseFields(line)[2])
      \o <<",">> \o Quoted(JoinTokens(kept, 1))

LoadsAsCleaned(i) ==
  readASMInfoFromCSV([manifest EXCEPT !.lines[i] = CleanedRow(manifest.lines[i])])
    = LoadedRecords

C4_Original ==
  JustLoaded =>
    \A i \in DataRows :
      (\/ WrongFieldCount(manifest.lines[i])
       \/ NameUnmatched(manifest.lines[i])
       \/ HasRejectedToken(manifest.lines[i])) => ContributesNothing(i)

C4_Amended ==
  JustLoaded =>
    \A i \in DataRows :
      /\ (WrongFieldCount(manifest.lines[i]) \/ NameUnmatched(manifest.lines[i]))
           => ContributesNothing(i)
      /\ HasRejectedToken(manifest.lines[i]) => LoadsAsCleaned(i)
      /\ IdRejected(manifest.lines[i]) =>
           \A k \in 1..Len(asmFiles) :
             asmFiles[k].filename # ParseFields(manifest.lines[i])[2]

\* A four-field row followed by a row with rejected tokens: one record,
\* holding the two tokens that parse.
C4_Witness ==
  /\ JustLoaded
  /\ manifest.lines = <<HeaderLine, RowFourFields, RowBadToken>>
  /\ Len(asmFiles) = 1
  /\ asmFiles[1].asmId = 1
  /\ asmFiles[1].timestamps = <<[lineNumber |-> 7, optionalIndex |-> -1],
                                [lineNumber |-> 9, optionalIndex |-> -1]>>

(***************************************************************************)
(* C5.  Whatever the order of the data rows, the loaded records are in     *)
(* ascending programId order, and so are the core indices of the           *)
(* instrumentation blocks in the emitted script.                           *)
(***************************************************************************)
LoadedIds == {asmFiles[k].asmId : k \in 1..Len(asmFiles)}

C5_AscendingProgramId ==
  /\ HasLoaded =>
       \A k \in 1..(Len(asmFiles) - 1) : asmFiles[k].asmId <= asmFiles[k + 1].asmId
  /\ Succeeded =>
       LET jl == JprobeLinesOf(outFile.text)
       IN  \A k \in 1..(Len(jl) - 1) :
             \E a, b \in LoadedIds :
               a <= b /\ jl[k][4] = Dec(4 * a) /\ jl[k + 1][4] = Dec(4 * b)

\* Rows in descending id order, both emitted.
C5_Witness ==
  /\ Succeeded
  /\ manifest.lines = <<HeaderLine, RowId1, RowId0>>
  /\ Len(JprobeLinesOf(outFile.text)) = 2
  /\ JprobeLinesOf(outFile.text)[1][4] = "0"
  /\ JprobeLinesOf(outFile.text)[2][4] = "4"

(***************************************************************************)
(* C6.  The counters a record gets from the filter step are exactly the    *)
(* counters of allCounters whose column lies in [colStart, colEnd], both   *)
(* ends included, in the order they have in allCounters.                   *)
(***************************************************************************)
InRangePositions(allCtrs, lo, hi) ==
  {j \in 1..Len(allCtrs) : lo <= allCtrs[j].column /\ allCtrs[j].column <= hi}

IsExactSubsequence(sub, allCtrs, lo, hi) ==
  LET pos == InRangePositions(allCtrs, lo, hi)
  IN  /\ Len(sub) = Cardinality(pos)
      /\ \A m \in 1..Len(sub) : sub[m] = allCtrs[NthOf(pos, m)]

C6_FilterExact ==
  \A k \in 1..StepCount("Filter") :
    IsExactSubsequence(asmFiles[k].counters, allCounters,
                       asmFiles[k].colStart, asmFiles[k].colEnd)

\* Three of four counters kept for the record of columns 0..3.
C6_Witness ==
  /\ StepCount("Filter") >= 1
  /\ Len(allCounters) = 4
  /\ asmFiles[1].colStart = 0
  /\ Len(asmFiles[1].counters) = 3
  /\ asmFiles[1].counters[1].column = 1
  /\ asmFiles[1].counters[2].column = 0

(***************************************************************************)
(* C7.  The address of a resolved counter depends only on its column, row, *)
(* counter number, module and the two shifts: counters equal in these have *)
(* equal addresses, and for a counter number below 255 the address of the  *)
(* next counter number is larger by exactly 4.                             *)
(***************************************************************************)
C7_AddressStride ==
  HasResolved =>
    /\ \A i, j \in 1..Len(allCounters) :
         (/\ allCounters[i].column = allCounters[j].column
          /\ allCounters[i].row = allCounters[j].row
          /\ allCounters[i].counterNumber = allCounters[j].counterNumber
          /\ allCounters[i].module = allCounters[j].module)
           => allCounters[i].address = allCounters[j].address
    /\ \A i \in 1..Len(allCounters) :
         allCounters[i].counterNumber < 255 =>
           calculateCounterAddress(allCounters[i].column, allCounters[i].row,
                                   allCounters[i].counterNumber + 1,
                                   allCounters[i].module)
             = allCounters[i].address + 4

\* Counter number 63 of a memory tile under overlapping shifts.
C7_Witness ==
  /\ HasResolved
  /\ Len(allCounters) = 1
  /\ allCounters[1].counterNumber = 63
  /\ allCounters[1].module = "memory_tile"
  /\ columnShift = 20 /\ rowShift = 20
  /\ allCounters[1].column = 1 /\ allCounters[1].row = 5
  /\ allCounters[1].address = 5 * 1048576 + 593952 + 252

(***************************************************************************)
(* C8.  The port direction of a counter: none when the metric-set name     *)
(* contains neither "throughput" nor "bandwidth"; else, for ddr_bandwidth, *)
(* read_bandwidth and write_bandwidth, output when payload bit 8 is set    *)
(* and input when it is clear; else input when the name contains "input"   *)
(* or "s2mm"; else output when it contains "output" or "mm2s"; else none.  *)
(* The metadata entry of the counter carries a port_direction field        *)
(* exactly when the direction is not none, and then with that direction.   *)
(***************************************************************************)
PayloadBit8(payload) == (payload \div 256) % 2

ClaimedDirection(name, payload) ==
  CASE ~Contains(name, Throughput) /\ ~Contains(name, Bandwidth) -> ""
    [] OTHER ->
         CASE name \in {DdrBandwidth, ReadBandwidth, WriteBandwidth} ->
                (IF PayloadBit8(payload) = 1 THEN "output" ELSE "input")
           [] OTHER ->
                CASE Contains(name, InputWord) \/ Contains(name, S2mmWord) -> "input"
                  [] OTHER ->
                       CASE Contains(name, OutputWord) \/ Contains(name, Mm2sWord) -> "output"
                         [] OTHER -> ""

\* The live counters getConfiguredCounters does not pass over.
PresentCounters == SelectSeq(liveCounters, LAMBDA c : ~c.null)

PortDirectionField == ", \"port_direction\": \""

\* The direction a metadata line carries ("" when it has no such field).
EmittedDirection(line) ==
  IF \E q \in 1..Len(line) : line[q] = PortDirectionField
  THEN line[1 + CHOOSE q \in 1..Len(line) : line[q] = PortDirectionField]
  ELSE ""

C8_PortDirection ==
  /\ HasResolved =>
       /\ Len(allCounters) = Len(PresentCounters)
       /\ \A i \in 1..Len(allCounters) :
            allCounters[i].portDirection
              = ClaimedDirection(allCounters[i].metricSet, PresentCounters[i].payload)
  /\ Succeeded =>
       /\ Len(MetadataLinesOf(outFile.text)) = Len(allCounters)
       /\ \A i \in 1..Len(allCounters) :
            EmittedDirection(MetadataLinesOf(outFile.text)[i])
              = ClaimedDirection(allCounters[i].metricSet, PresentCounters[i].payload)

\* read_bandwidth with payload bit 8 set: output, and emitted as such.
C8_Witness ==
  /\ Succeeded
  /\ Len(allCounters) = 1
  /\ allCounters[1].metricSet = Name_read_bandwidth
  /\ PresentCounters[1].payload = 769
  /\ allCounters[1].portDirection = "output"
  /\ EmittedDirection(MetadataLinesOf(outFile.text)[1]) = "output"

(***************************************************************************)
(* C9.  The emitted script has one instrumentation block for each loaded   *)
(* record that has a probe point and a filtered counter, in record order,  *)
(* and none for any other record.  The block names the record's file and   *)
(* core index 4 * programId and lists all its line numbers in order; it    *)
(* has one register read per filtered counter, named ctr_0 .. ctr_(n-1) in *)
(* filtered order, each reading the counter's formatted address.           *)
(***************************************************************************)
EligibleRecords ==
  SelectSeq(asmFiles, LAMBDA f : f.timestamps # <<>> /\ f.counters # <<>>)

RECURSIVE CommaJoined(_)
CommaJoined(numbers) ==
  IF numbers = <<>> THEN ""
  ELSE IF Len(numbers) = 1 THEN Dec(numbers[1])
  ELSE Dec(numbers[1]) \o "," \o CommaJoined(Tail(numbers))

ExpectedDeclaration(f) ==
  <<"jprobe:", Str(Basename(f.filename)), ":uc", Dec(4 * f.asmId), ":",
    "line" \o CommaJoined([t \in 1..Len(f.timestamps) |-> f.timestamps[t].lineNumber])>>

ExpectedRead(f, n) ==
  <<"    ctr_", Dec(n), " = read_reg(", formatAddress(f.counters[n + 1].address), ")">>

C9_BlocksPerRecord ==
  Succeeded =>
    /\ Cardinality(JprobePositions(outFile.text)) = Len(EligibleRecords)
    /\ \A k \in 1..Len(EligibleRecords) :
         LET f == EligibleRecords[k]
             region == BlockRegion(outFile.text, k)
             reads == ReadLinesOf(region)
         IN  /\ region[1] = ExpectedDeclaration(f)
             /\ Len(reads) = Len(f.counters)
             /\ \A n \in 0..(Len(f.counters) - 1) : reads[n + 1] = ExpectedRead(f, n)

\* The manifest row of aie_runtime_control0.asm with lines 6,8,293 and two
\* counters in column 0: one block on core index 0 with two register reads.
C9_Witness ==
  /\ Succeeded
  /\ manifest.lines = <<HeaderLine, RowId0>>
  /\ liveCounters = DeviceTwoInColumn0
  /\ JprobeLinesOf(outFile.text)
       = << <<"jprobe:", "aie_runtime_control0.asm", ":uc", "0", ":", "line6,8,293">> >>
  /\ ReadLinesOf(outFile.text)
       = << <<"    ctr_", "0", " = read_reg(", "0x0000237520", ")">>,
            <<"    ctr_", "1", " = read_reg(", "0x0000237524", ")">> >>

(***************************************************************************)
(* C10.  With the manifest, the counter configuration, the metric-set      *)
(* mapping and the shifts unchanged, consecutive calls of generate()       *)
(* return the same result and leave the same text in aie_profile.ct.       *)
(***************************************************************************)
C10_Idempotent ==
  \A i, j \in 1..Len(calls) : calls[i] = calls[j]

\* Two successful calls, the second over an output file the first wrote.
C10_Witness ==
  /\ Len(calls) = 2
  /\ calls[1].result /\ calls[2].result
  /\ calls[2].out.exists
  /\ Len(JprobeLinesOf(calls[2].out.text)) = 2

(***************************************************************************)
(* C11.  Within each instrumentation block the counters are grouped by     *)
(* (column,row) tile.  Each group lists, in filtered order, the local      *)
(* names ctr_i of exactly the counters on its tile, so every ctr_i of the  *)
(* block appears in exactly one group.  As stated, the groups are listed   *)
(* in the order in which each tile first occurs in the filtered counters   *)
(* (C11_Original); in the code they are listed in ascending (column,row)   *)
(* order (C11_Amended).                                                    *)
(***************************************************************************)
\* The tile group lines of a block.
TileLinesOf(region) == SelectSeq(region, LAMBDA l : l[1] = "        {\"col\": ")

\* The (column,row) a group line carries, as decimal text.
GroupTile(line) == <<line[2], line[4]>>

\* The indices i of the names ctr_i a group line lists, in order.
GroupNames(line) ==
  LET at == {q \in 1..Len(line) : line[q] = "ctr_"}
  IN  [n \in 1..Cardinality(at) |-> line[NthOf(at, n) + 1]]

\* The indices i of the filtered counters on tile, in filtered order.
NamesOnTile(counters, tile) ==
  LET at == {i \in 1..Len(counters) : TileOf(counters[i]) = tile}
  IN  [n \in 1..Cardinality(at) |-> Dec(NthOf(at, n) - 1)]

TileText(tile) == <<Dec(tile[1]), Dec(tile[2])>>

\* The tiles of the filtered counters in the order of their first occurrence.
EncounterOrder(counters) ==
  LET firsts == {i \in 1..Len(counters) :
                   \A j \in 1..(i - 1) : TileOf(counters[j]) # TileOf(counters[i])}
  IN  [g \in 1..Cardinality(firsts) |-> TileOf(counters[NthOf(firsts, g)])]

\* The groups of a block are those of the tiles in the given order.
GroupsFollow(groups, counters, tiles) ==
  /\ Len(groups) = Len(tiles)
  /\ \A g \in 1..Len(tiles) :
       /\ GroupTile(groups[g]) = TileText(tiles[g])
       /\ GroupNames(groups[g]) = NamesOnTile(counters, tiles[g])

\* Every ctr_i of the block is listed once, in one group.
EachNameOnce(groups, counters) ==
  \A i \in 0..(Len(counters) - 1) :
    Cardinality({<<g, n>> \in (1..Len(groups)) \X (1..Len(counters)) :
                   /\ n <= Len(GroupNames(groups[g]))
                   /\ GroupNames(groups[g])[n] = Dec(i)}) = 1

C11_Original ==
  Succeeded =>
    \A k \in 1..Len(EligibleRecords) :
      LET f == EligibleRecords[k]
          groups == TileLinesOf(BlockRegion(outFile.text, k))
      IN  /\ GroupsFollow(groups, f.counters, EncounterOrder(f.counters))
          /\ EachNameOnce(groups, f.counters)

\* The groups are those of the tiles of the filtered counters, one each, in
\* ascending (column,row) order.
C11_Amended ==
  Succeeded =>
    \A k \in 1..Len(EligibleRecords) :
      LET f == EligibleRecords[k]
          groups == TileLinesOf(BlockRegion(outFile.text, k))
          tiles == {TileOf(f.counters[i]) : i \in 1..Len(f.counters)}
      IN  /\ \E order \in [1..Len(groups) -> tiles] :
               /\ \A t \in tiles : \E g \in 1..Len(groups) : order[g] = t
               /\ \A g, h \in 1..Len(groups) :
                    g < h => \/ order[g][1] < order[h][1]
                             \/ /\ order[g][1] = order[h][1]
                                /\ order[g][2] < order[h][2]
               /\ GroupsFollow(groups, f.counters, order)
          /\ EachNameOnce(groups, f.counters)

\* A block whose filtered counters lie on tiles (1,3), (0,2), (1,3): the
\* group of (0,2) with ctr_1 comes first, then that of (1,3) with ctr_0 and
\* ctr_2.
C11_Witness ==
  /\ Succeeded
  /\ Len(EligibleRecords) >= 1
  /\ [i \in 1..Len(EligibleRecords[1].counters) |-> TileOf(EligibleRecords[1].counters[i])]
       = << <<1, 3>>, <<0, 2>>, <<1, 3>> >>
  /\ TileLinesOf(BlockRegion(outFile.text, 1))
       = << <<"        {\"col\": ", "0", ", \"row\": ", "2", ", \"counters\": [",
              "ctr_", "1", "]}", ",">>,
            <<"        {\"col\": ", "1", ", \"row\": ", "3", ", \"counters\": [",
              "ctr_", "0", ", ", "ctr_", "2", "]}">> >>

(***************************************************************************)
(* C12.  Register addresses do not collide.  When the shifts place the     *)
(* column field, the row field and the base-plus-counter offset in         *)
(* disjoint bit ranges, the address of a resolved counter of one of the    *)
(* four known module kinds differs from the address calculateCounterAddress*)
(* gives to every other tuple (column, row, counterIndex, moduleKind) of   *)
(* the four known kinds.                                                   *)
(***************************************************************************)
KnownModules == {"aie", "aie_memory", "memory_tile", "interface_tile"}

MaxOf(values) == CHOOSE x \in values : \A y \in values : y <= x

\* The number of bits of the binary numeral of value (0 for 0).
BitWidth(value) == CHOOSE n \in 0..30 : value < Pow2(n) /\ (n = 0 \/ value >= Pow2(n - 1))

\* The largest base-plus-counter offset of the tuples.
MaxModuleOffset ==
  MaxOf({getModuleBaseOffset(module) : module \in KnownModules})
  + CounterOffset(MaxOf(AddressCounterNumbers))

\* The bit ranges of the offset, of the shifted rows and of the shifted
\* columns do not overlap.
DisjointFields(cShift, rShift) ==
  /\ cShift >= BitWidth(MaxModuleOffset)
  /\ rShift >= BitWidth(MaxModuleOffset)
  /\ \/ cShift >= rShift + BitWidth(MaxOf(AddressRows))
     \/ rShift >= cShift + BitWidth(MaxOf(AddressColumns))

AddressTuples == AddressColumns \X AddressRows \X AddressCounterNumbers \X KnownModules

TupleOf(counter) ==
  <<counter.column, counter.row, counter.counterNumber, counter.module>>

JustResolved == steps = <<"Load", "Resolve">>

C12_NoCollision ==
  (JustResolved /\ DisjointFields(columnShift, rowShift)) =>
    \A i \in 1..Len(allCounters) :
      TupleOf(allCounters[i]) \in AddressTuples =>
        \A t \in AddressTuples \ {TupleOf(allCounters[i])} :
          calculateCounterAddress(t[1], t[2], t[3], t[4]) # allCounters[i].address

\* Counter 255 of the memory tile (7,5) under shifts 23 and 20: the three
\* fields are adjacent and the address is 7 * 2^23 + 5 * 2^20 + 0x9141C.
C12_Witness ==
  /\ JustResolved
  /\ columnShift = 23 /\ rowShift = 20
  /\ DisjointFields(columnShift, rowShift)
  /\ Len(allCounters) = 1
  /\ TupleOf(allCounters[1]) = <<7, 5, 255, "memory_tile">>
  /\ allCounters[1].address = 64558108
  /\ calculateCounterAddress(7, 5, 254, "memory_tile") = 64558104

(***************************************************************************)
(* C13.  Metric-set resolution is first-match-wins: the metric set of a    *)
(* resolved counter is the name stored in the first entry, in iteration    *)
(* order over the module configurations and their tile entries, whose tile *)
(* equals the counter's (column,row); a later entry for the same tile does *)
(* not override it, and the metric set is empty exactly when no entry      *)
(* matches the tile.                                                       *)
(***************************************************************************)
\* All tile entries of the configuration in iteration order.
RECURSIVE EntriesFrom(_, _)
EntriesFrom(configMetrics, m) ==
  IF m > Len(configMetrics) THEN <<>>
  ELSE configMetrics[m] \o EntriesFrom(configMetrics, m + 1)

AllEntries == IF profileConfig.present THEN EntriesFrom(profileConfig.configMetrics, 1) ELSE <<>>

\* The entries for the tile (col,row), in iteration order.
MatchingEntries(col, row) ==
  SelectSeq(AllEntries, LAMBDA e : e.col = col /\ e.row = row)

=============================================================================
